---- MODULE Spec2Model ----
(***************************************************************************)
(* A model of druglib/utils/progressbar.py: the ProgressBar class and the  *)
(* three drivers track_progress (sequential), track_parallel_progress      *)
(* (multiprocessing.Pool) and track_iter_progress (lazy generator).        *)
(*                                                                         *)
(* One run of the model is one use of the module: `mode` says which entry  *)
(* point the caller uses ("seq", "par", "lazy", or "bar" for a ProgressBar *)
(* embedded directly in a caller's own loop).                              *)
(***************************************************************************)
EXTENDS Integers, Sequences, FiniteSets

\* ------------------------------------------------------------------ bounds
MaxTasks == 3          \* longest task source
MaxProc == 2           \* largest nproc
MaxChunk == 2          \* largest chunksize
MaxCalls == 4          \* calls a caller makes on a directly embedded ProgressBar
MaxN == 2              \* largest argument a caller passes to update
MaxTotal == 22         \* largest task_num of a rendered ProgressBar
MaxBarWidth == 22      \* largest bar_width a rendered ProgressBar is configured with
MaxTermWidth == 72     \* widest terminal
MaxElapsed == 2        \* longest elapsed time, in half seconds

\* ------------------------------------------------------------- python values
\* The values a caller can pass as `tasks`: a list, a generator (iterable
\* without len), an int (not iterable) or a tuple of such values.
PyList(s) == [tag |-> "list", items |-> s, val |-> 0, elems |-> <<>>]
PyGen(s) == [tag |-> "gen", items |-> s, val |-> 0, elems |-> <<>>]
PyInt(n) == [tag |-> "int", items |-> <<>>, val |-> n, elems |-> <<>>]
PyTuple(es) == [tag |-> "tuple", items |-> <<>>, val |-> 0, elems |-> es]
PyNone == [tag |-> "none", items |-> <<>>, val |-> 0, elems |-> <<>>]

\* The tasks of a source of n items are 1..n: func sees each task's value and
\* nothing else of it.
Ids(n) == [i \in 1..n |-> i]

isinstance_Iterable(v) == v.tag \in {"list", "gen", "tuple"}
isinstance_int(v) == v.tag = "int"
isinstance_tuple(v) == v.tag = "tuple"
has_len(v) == v.tag \in {"list", "tuple"}

\* The errors of the module, and the spec's name for the class they fall in.
InvalidArgument == {"AssertionError", "TypeError"}

\* func, the caller's function: here it doubles its task, and raises on the
\* tasks in raisesOn.
func(task) == 2 * task

\* ------------------------------------------------------- task normalization
NormOk(it, n) == [err |-> "none", tasks |-> it, task_num |-> n]
NormErr(e) == [err |-> e, tasks |-> PyNone, task_num |-> 0]

normalize_tasks_min_len(t) ==
    IF isinstance_tuple(t)
    THEN IF Len(t.elems) < 2 THEN NormErr("AssertionError")
         ELSE IF ~isinstance_Iterable(t.elems[1]) THEN NormErr("AssertionError")
         ELSE IF ~isinstance_int(t.elems[2]) THEN NormErr("AssertionError")
         ELSE NormOk(t.elems[1], t.elems[2].val)
    ELSE IF isinstance_Iterable(t)
    THEN IF has_len(t) THEN NormOk(t, Len(t.items)) ELSE NormErr("TypeError")
    ELSE NormErr("TypeError")

\* The head of every driver: `tasks` is a tuple (iterable, int) or a sized
\* iterable.
normalize_tasks(t) ==
    IF isinstance_tuple(t)
    THEN IF Len(t.elems) # 2 THEN NormErr("AssertionError")
         ELSE IF ~isinstance_Iterable(t.elems[1]) THEN NormErr("AssertionError")
         ELSE IF ~isinstance_int(t.elems[2]) THEN NormErr("AssertionError")
         ELSE NormOk(t.elems[1], t.elems[2].val)
    ELSE IF isinstance_Iterable(t)
    THEN IF has_len(t) THEN NormOk(t, Len(t.items)) ELSE NormErr("TypeError")
    ELSE NormErr("TypeError")

\* ------------------------------------------------------------- ProgressBar
\* A ProgressBar object: task_num, completed, whether self.timer exists
\* (start() has run) and what has been written to self.file.
start(b) ==
    [b EXCEPT !.file = Append(@, IF b.task_num > 0 THEN "init_bar" ELSE "init_plain"),
              !.timer = TRUE]

ProgressBar(n, st) ==
    LET b == [task_num |-> n, completed |-> 0, timer |-> FALSE, file |-> <<>>]
    IN IF st THEN start(b) ELSE b

update_overwrite(b, n) ==
    IF ~(n > 0) THEN [bar |-> b, err |-> "AssertionError"]
    ELSE LET b1 == [b EXCEPT !.completed = n]
         IN IF ~b.timer THEN [bar |-> b1, err |-> "AttributeError"]
            ELSE [bar |-> [b1 EXCEPT !.file = Append(@, IF b.task_num > 0 THEN "bar" ELSE "plain")],
                  err |-> "none"]

update_accept_zero(b, n) ==
    IF ~(n >= 0) THEN [bar |-> b, err |-> "AssertionError"]
    ELSE LET b1 == [b EXCEPT !.completed = @ + n]
         IN IF ~b.timer THEN [bar |-> b1, err |-> "AttributeError"]
            ELSE [bar |-> [b1 EXCEPT !.file = Append(@, IF b.task_num > 0 THEN "bar" ELSE "plain")],
                  err |-> "none"]

\* update(num_tasks): the assert, the increment, the read of self.timer (an
\* AttributeError when start() never ran) and the line written to the file.
update(b, n) ==
    IF ~(n > 0) THEN [bar |-> b, err |-> "AssertionError"]
    ELSE LET b1 == [b EXCEPT !.completed = @ + n]
         IN IF ~b.timer THEN [bar |-> b1, err |-> "AttributeError"]
            ELSE [bar |-> [b1 EXCEPT !.file = Append(@, IF b.task_num > 0 THEN "bar" ELSE "plain")],
                  err |-> "none"]

NoBar == [task_num |-> 0, completed |-> 0, timer |-> FALSE, file |-> <<>>]

\* --------------------------------------------------------------- the state
VARIABLES
    mode,        \* "seq", "par", "lazy" or "bar"
    tasksArg,    \* the caller's `tasks` argument
    nproc, chunksize, skip_first, keep_order,   \* track_parallel_progress arguments
    initargs,    \* "ok": init_pool returns a Pool; "bad": initializer with non-tuple initargs
    raisesOn,    \* the tasks on which func raises
    pc,          \* the driver's position
    err,         \* the exception the run ended with, or "none"
    tasks,       \* the local `tasks` after normalization
    task_num,    \* the local `task_num`
    pos,         \* how many items the driver's for-loop has taken from `tasks`
    prog_bar,    \* the ProgressBar
    results,     \* the local `results`
    pool,        \* "none", "open", "closed" or "joined"
    dispatched,  \* chunks handed to workers so far (the pool's task queue is FIFO)
    running,     \* chunks a worker is executing
    finished,    \* chunks in the order their results reached the pool's result queue
    taken,       \* chunks the driver has pulled out of genpool
    cur,         \* the rest of the chunk genpool is unpacking
    handed,      \* the task the lazy driver's caller holds, or 0
    log          \* what the driving thread has called so far, in order

vars == <<mode, tasksArg, nproc, chunksize, skip_first, keep_order, initargs, raisesOn,
          pc, err, tasks, task_num, pos, prog_bar, results, pool, dispatched,
          running, finished, taken, cur, handed, log>>

args == <<mode, tasksArg, nproc, chunksize, skip_first, keep_order, initargs, raisesOn>>
poolvars == <<pool, dispatched, running, finished, taken, cur>>

Ev(op, n, ok) == [op |-> op, n |-> n, ok |-> ok]

\* The `tasks` arguments the model draws from: lists, (generator, L) and
\* (list, L) pairs with L below, at and above the real length, and the
\* malformed shapes.
TaskArgs ==
    {PyList(Ids(n)) : n \in 0..MaxTasks}
    \cup {PyTuple(<<PyGen(Ids(n)), PyInt(n + d)>>) : n \in 0..MaxTasks, d \in {-1, 0, 1}}
    \cup {PyTuple(<<PyList(Ids(1)), PyInt(1)>>), PyGen(Ids(2)), PyInt(5),
          PyTuple(<<>>), PyTuple(<<PyList(Ids(2))>>),
          PyTuple(<<PyList(Ids(1)), PyInt(1), PyInt(1)>>),
          PyTuple(<<PyInt(1), PyInt(2)>>), PyTuple(<<PyList(Ids(2)), PyList(Ids(2))>>)}

\* The items the caller's source holds, whatever its shape.
Items(t) == IF t.tag = "tuple" THEN (IF Len(t.elems) >= 1 THEN t.elems[1].items ELSE <<>>)
            ELSE t.items

Init ==
    /\ mode \in {"seq", "par", "lazy", "bar"}
    /\ tasksArg \in (IF mode = "bar" THEN {PyNone} ELSE TaskArgs)
    /\ nproc \in (IF mode = "par" THEN 1..MaxProc ELSE {1})
    /\ chunksize \in (IF mode = "par" THEN 1..MaxChunk ELSE {1})
    /\ skip_first \in (IF mode = "par" THEN BOOLEAN ELSE {FALSE})
    /\ keep_order \in (IF mode = "par" THEN BOOLEAN ELSE {TRUE})
    /\ initargs \in (IF mode = "par" THEN {"ok", "bad"} ELSE {"ok"})
    /\ raisesOn \in (IF mode \in {"seq", "par"} THEN SUBSET (1..Len(Items(tasksArg))) ELSE {{}})
    /\ pc = "init"
    /\ err = "none"
    /\ tasks = PyNone
    /\ task_num = 0
    /\ pos = 0
    /\ prog_bar = NoBar
    /\ results = <<>>
    /\ pool = "none"
    /\ dispatched = 0
    /\ running = {}
    /\ finished = <<>>
    /\ taken = 0
    /\ cur = <<>>
    /\ handed = 0
    /\ log = <<>>

\* ------------------------------------------------------------- normalization
\* Lines 89-100, 153-164 and 202-213: the same text in the three drivers.
Normalize ==
    /\ mode \in {"seq", "par", "lazy"}
    /\ pc = "init"
    /\ LET r == normalize_tasks(tasksArg)
       IN /\ err' = r.err
          /\ tasks' = r.tasks
          /\ task_num' = r.task_num
          /\ pc' = IF r.err = "none" THEN "norm" ELSE "raised"
    /\ UNCHANGED <<args, pos, prog_bar, results, poolvars, handed, log>>

\* ---------------------------------------------------------- track_progress
StartLog(st) == IF st THEN <<Ev("start", 0, TRUE)>> ELSE <<>>

SeqConstruct ==
    /\ mode = "seq"
    /\ pc = "norm"
    /\ prog_bar' = ProgressBar(task_num, TRUE)
    /\ log' = log \o StartLog(TRUE)
    /\ results' = <<>>
    /\ pc' = "loop"
    /\ UNCHANGED <<args, err, tasks, task_num, pos, poolvars, handed>>

SeqCall_newline_on_error ==
    /\ mode = "seq"
    /\ pc = "loop"
    /\ pos < Len(tasks.items)
    /\ LET task == tasks.items[pos + 1]
       IN IF task \in raisesOn
          THEN /\ pc' = "raised"
               /\ err' = "FuncError"
               /\ log' = Append(log, Ev("func", task, FALSE))
               /\ prog_bar' = [prog_bar EXCEPT !.file = Append(@, "nl")]
               /\ UNCHANGED results
          ELSE /\ pc' = "update"
               /\ results' = Append(results, func(task))
               /\ log' = Append(log, Ev("func", task, TRUE))
               /\ UNCHANGED <<err, prog_bar>>
    /\ pos' = pos + 1
    /\ UNCHANGED <<args, tasks, task_num, poolvars, handed>>

\* results.append(func(task, **kwargs))
SeqCall ==
    /\ mode = "seq"
    /\ pc = "loop"
    /\ pos < Len(tasks.items)
    /\ LET task == tasks.items[pos + 1]
       IN IF task \in raisesOn
          THEN /\ pc' = "raised"
               /\ err' = "FuncError"
               /\ log' = Append(log, Ev("func", task, FALSE))
               /\ UNCHANGED results
          ELSE /\ pc' = "update"
               /\ results' = Append(results, func(task))
               /\ log' = Append(log, Ev("func", task, TRUE))
               /\ UNCHANGED err
    /\ pos' = pos + 1
    /\ UNCHANGED <<args, tasks, task_num, prog_bar, poolvars, handed>>

SeqUpdate_skipped ==
    /\ mode = "seq"
    /\ pc = "update"
    /\ pc' = "loop"
    /\ UNCHANGED <<args, err, tasks, task_num, pos, prog_bar, results, poolvars, handed, log>>

\* prog_bar.update()
SeqUpdate ==
    /\ mode = "seq"
    /\ pc = "update"
    /\ LET r == update(prog_bar, 1)
       IN /\ prog_bar' = r.bar
          /\ err' = r.err
          /\ pc' = IF r.err = "none" THEN "loop" ELSE "raised"
          /\ log' = Append(log, Ev("update", 1, r.err = "none"))
    /\ UNCHANGED <<args, tasks, task_num, pos, results, poolvars, handed>>

SeqFinish_at_task_num ==
    /\ mode = "seq"
    /\ pc = "loop"
    /\ pos >= task_num
    /\ prog_bar' = [prog_bar EXCEPT !.file = Append(@, "nl")]
    /\ pc' = "done"
    /\ UNCHANGED <<args, err, tasks, task_num, pos, results, poolvars, handed, log>>

\* The loop is exhausted: the trailing newline and the return.
SeqFinish ==
    /\ mode = "seq"
    /\ pc = "loop"
    /\ pos = Len(tasks.items)
    /\ prog_bar' = [prog_bar EXCEPT !.file = Append(@, "nl")]
    /\ pc' = "done"
    /\ UNCHANGED <<args, err, tasks, task_num, pos, results, poolvars, handed, log>>

\* ------------------------------------------------------ track_iter_progress
\* The generator body up to the loop, run by the caller's first next().
LazyConstruct ==
    /\ mode = "lazy"
    /\ pc = "norm"
    /\ prog_bar' = ProgressBar(task_num, TRUE)
    /\ log' = log \o StartLog(TRUE)
    /\ pc' = "loop"
    /\ UNCHANGED <<args, err, tasks, task_num, pos, results, poolvars, handed>>

LazyAdvance_update_first ==
    /\ mode = "lazy"
    /\ pc = "loop"
    /\ IF pos < Len(tasks.items)
       THEN /\ handed' = tasks.items[pos + 1]
            /\ pos' = pos + 1
            /\ log' = log \o <<Ev("update", 1, TRUE), Ev("yield", tasks.items[pos + 1], TRUE)>>
            /\ prog_bar' = update(prog_bar, 1).bar
            /\ pc' = "yielded"
       ELSE /\ prog_bar' = [prog_bar EXCEPT !.file = Append(@, "nl")]
            /\ handed' = 0
            /\ pc' = "done"
            /\ UNCHANGED <<pos, log>>
    /\ UNCHANGED <<args, err, tasks, task_num, results, poolvars>>

\* The for statement: `yield task` hands the next task to the caller; when
\* the source is exhausted the newline is written and the generator ends.
LazyAdvance ==
    /\ mode = "lazy"
    /\ pc = "loop"
    /\ IF pos < Len(tasks.items)
       THEN /\ handed' = tasks.items[pos + 1]
            /\ pos' = pos + 1
            /\ log' = Append(log, Ev("yield", tasks.items[pos + 1], TRUE))
            /\ pc' = "yielded"
            /\ UNCHANGED prog_bar
       ELSE /\ prog_bar' = [prog_bar EXCEPT !.file = Append(@, "nl")]
            /\ handed' = 0
            /\ pc' = "done"
            /\ UNCHANGED <<pos, log>>
    /\ UNCHANGED <<args, err, tasks, task_num, results, poolvars>>

\* The caller resumes the generator: prog_bar.update() runs.
LazyResume ==
    /\ mode = "lazy"
    /\ pc = "yielded"
    /\ LET r == update(prog_bar, 1)
       IN /\ prog_bar' = r.bar
          /\ err' = r.err
          /\ pc' = IF r.err = "none" THEN "loop" ELSE "raised"
          /\ log' = Append(log, Ev("update", 1, r.err = "none"))
    /\ handed' = 0
    /\ UNCHANGED <<args, tasks, task_num, pos, results, poolvars>>

\* ------------------------------------------- a ProgressBar used directly
BarConstruct ==
    /\ mode = "bar"
    /\ pc = "init"
    /\ \E n \in {0, MaxN + 1}, st \in BOOLEAN :
          /\ prog_bar' = ProgressBar(n, st)
          /\ task_num' = n
          /\ log' = StartLog(st)
    /\ pc' = "use"
    /\ UNCHANGED <<args, err, tasks, pos, results, poolvars, handed>>

BarStart ==
    /\ mode = "bar"
    /\ pc = "use"
    /\ Len(log) < MaxCalls
    /\ prog_bar' = start(prog_bar)
    /\ log' = Append(log, Ev("start", 0, TRUE))
    /\ err' = "none"
    /\ UNCHANGED <<args, pc, tasks, task_num, pos, results, poolvars, handed>>

\* One call of update(n) by the caller, who catches what it raises.
BarUpdate ==
    /\ mode = "bar"
    /\ pc = "use"
    /\ Len(log) < MaxCalls
    /\ \E n \in -1..MaxN :
          LET r == update(prog_bar, n)
          IN /\ prog_bar' = r.bar
             /\ err' = r.err
             /\ log' = Append(log, Ev("update", n, r.err = "none"))
    /\ UNCHANGED <<args, pc, tasks, task_num, pos, results, poolvars, handed>>

\* -------------------------------------------------- track_parallel_progress
\* init_pool: a Pool, or the TypeError for initargs that is not a tuple.
init_pool(ia) == IF ia = "bad" THEN [err |-> "TypeError", pool |-> "none"]
                 ELSE [err |-> "none", pool |-> "open"]

Min(a, b) == IF a < b THEN a ELSE b
Range(s) == {s[i] : i \in 1..Len(s)}

\* Pool.imap and Pool.imap_unordered cut the iterable into chunks of
\* chunksize tasks; a worker maps func over one chunk at a time, and a chunk
\* in which func raises yields the exception instead of its results.
NumChunks == (Len(tasks.items) + chunksize - 1) \div chunksize
ChunkIdx(c) == ((c - 1) * chunksize + 1)..Min(c * chunksize, Len(tasks.items))
ChunkFails(c) == \E i \in ChunkIdx(c) : tasks.items[i] \in raisesOn
ChunkResult(c) == [k \in 1..Cardinality(ChunkIdx(c)) |-> func(tasks.items[(c - 1) * chunksize + k])]

next_chunk_as_completed(keep) ==
    IF Len(finished) > taken THEN finished[taken + 1] ELSE 0

\* The chunk genpool hands over next, 0 while the driver has to wait: imap
\* waits for the next chunk in submission order, imap_unordered takes the
\* chunks as they complete.
next_chunk(keep) ==
    IF keep
    THEN IF taken + 1 \in Range(finished) THEN taken + 1 ELSE 0
    ELSE IF Len(finished) > taken THEN finished[taken + 1] ELSE 0

ParConstruct_always_skip ==
    /\ mode = "par"
    /\ pc = "norm"
    /\ LET p == init_pool(initargs)
           n == task_num - nproc * chunksize
       IN IF p.err # "none"
          THEN /\ err' = p.err
               /\ pc' = "raised"
               /\ UNCHANGED <<pool, task_num, prog_bar, log>>
          ELSE /\ pool' = p.pool
               /\ task_num' = n
               /\ prog_bar' = ProgressBar(n, ~skip_first)
               /\ log' = log \o StartLog(~skip_first)
               /\ pc' = "loop"
               /\ UNCHANGED err
    /\ results' = <<>>
    /\ UNCHANGED <<args, tasks, pos, dispatched, running, finished, taken, cur, handed>>

\* The arguments, init_pool, the reduced task_num, the ProgressBar and the
\* call of imap or imap_unordered.
ParConstruct ==
    /\ mode = "par"
    /\ pc = "norm"
    /\ LET p == init_pool(initargs)
           n == task_num - nproc * chunksize * (IF skip_first THEN 1 ELSE 0)
       IN IF p.err # "none"
          THEN /\ err' = p.err
               /\ pc' = "raised"
               /\ UNCHANGED <<pool, task_num, prog_bar, log>>
          ELSE /\ pool' = p.pool
               /\ task_num' = n
               /\ prog_bar' = ProgressBar(n, ~skip_first)
               /\ log' = log \o StartLog(~skip_first)
               /\ pc' = "loop"
               /\ UNCHANGED err
    /\ results' = <<>>
    /\ UNCHANGED <<args, tasks, pos, dispatched, running, finished, taken, cur, handed>>

\* An idle worker takes the next chunk off the pool's task queue.
WorkerTake ==
    /\ pool \in {"open", "closed"}
    /\ Cardinality(running) < nproc
    /\ dispatched < NumChunks
    /\ dispatched' = dispatched + 1
    /\ running' = running \cup {dispatched + 1}
    /\ UNCHANGED <<args, pc, err, tasks, task_num, pos, prog_bar, results, pool,
                   finished, taken, cur, handed, log>>

\* A worker is through with its chunk: the outcome goes to the result queue.
WorkerFinish ==
    /\ pool \in {"open", "closed"}
    /\ \E c \in running :
          /\ running' = running \ {c}
          /\ finished' = Append(finished, c)
    /\ UNCHANGED <<args, pc, err, tasks, task_num, pos, prog_bar, results, pool,
                   dispatched, taken, cur, handed, log>>

loop_body_never_update(res, bar, item) ==
    [results |-> Append(res, item), bar |-> bar, err |-> "none", updated |-> FALSE]

loop_body_update_in_warm_up(res, bar, item) ==
    LET r == update(bar, 1)
    IN [results |-> Append(res, item), bar |-> r.bar, err |-> r.err, updated |-> TRUE]

loop_body_append_after_skip(res, bar, item) ==
    IF skip_first /\ Len(res) + 1 < nproc * chunksize
    THEN [results |-> res, bar |-> bar, err |-> "none", updated |-> FALSE]
    ELSE LET r == update(bar, 1)
         IN [results |-> Append(res, item), bar |-> r.bar, err |-> r.err, updated |-> TRUE]

\* The body of `for result in genpool`: the append, the skip_first tests and
\* prog_bar.update() (line 180 when the warm-up batch is complete, line 182
\* otherwise).
loop_body(res, bar, item) ==
    LET res1 == Append(res, item)
    IN IF skip_first /\ Len(res1) < nproc * chunksize
       THEN [results |-> res1, bar |-> bar, err |-> "none", updated |-> FALSE]
       ELSE IF skip_first /\ Len(res1) = nproc * chunksize
       THEN LET r == update(bar, 1)
            IN [results |-> res1, bar |-> r.bar, err |-> r.err, updated |-> TRUE]
       ELSE LET r == update(bar, 1)
            IN [results |-> res1, bar |-> r.bar, err |-> r.err, updated |-> TRUE]

\* One turn of `for result in genpool`: the next result, or the exception of
\* the chunk in which func raised.
ParNext ==
    /\ mode = "par"
    /\ pc = "loop"
    /\ \/ /\ cur # <<>>
          /\ LET b == loop_body(results, prog_bar, Head(cur))
             IN /\ results' = b.results
                /\ prog_bar' = b.bar
                /\ err' = b.err
                /\ pc' = IF b.err = "none" THEN "loop" ELSE "raised"
                /\ log' = IF b.updated THEN Append(log, Ev("update", 1, b.err = "none")) ELSE log
          /\ cur' = Tail(cur)
          /\ UNCHANGED taken
       \/ /\ cur = <<>>
          /\ taken < NumChunks
          /\ LET c == next_chunk(keep_order)
             IN /\ c # 0
                /\ IF ChunkFails(c)
                   THEN /\ err' = "FuncError"
                        /\ pc' = "raised"
                        /\ UNCHANGED <<results, prog_bar, cur, log>>
                   ELSE LET b == loop_body(results, prog_bar, Head(ChunkResult(c)))
                        IN /\ results' = b.results
                           /\ prog_bar' = b.bar
                           /\ err' = b.err
                           /\ pc' = IF b.err = "none" THEN "loop" ELSE "raised"
                           /\ log' = IF b.updated THEN Append(log, Ev("update", 1, b.err = "none")) ELSE log
                           /\ cur' = Tail(ChunkResult(c))
          /\ taken' = taken + 1
    /\ UNCHANGED <<args, tasks, task_num, pos, pool, dispatched, running, finished, handed>>

ParNewline_omitted ==
    /\ mode = "par"
    /\ pc = "loop"
    /\ cur = <<>>
    /\ taken = NumChunks
    /\ pc' = "close"
    /\ UNCHANGED <<args, err, tasks, task_num, pos, prog_bar, results, poolvars, handed, log>>

\* genpool is exhausted: prog_bar.file.write('\n')
ParNewline ==
    /\ mode = "par"
    /\ pc = "loop"
    /\ cur = <<>>
    /\ taken = NumChunks
    /\ prog_bar' = [prog_bar EXCEPT !.file = Append(@, "nl")]
    /\ pc' = "close"
    /\ UNCHANGED <<args, err, tasks, task_num, pos, results, poolvars, handed, log>>

ParClose_join_first ==
    /\ mode = "par"
    /\ pc = "close"
    /\ pc' = "raised"
    /\ err' = "ValueError"
    /\ UNCHANGED <<args, pool, tasks, task_num, pos, prog_bar, results, dispatched,
                   running, finished, taken, cur, handed, log>>

\* pool.close()
ParClose ==
    /\ mode = "par"
    /\ pc = "close"
    /\ pool' = "closed"
    /\ pc' = "join"
    /\ UNCHANGED <<args, err, tasks, task_num, pos, prog_bar, results, dispatched,
                   running, finished, taken, cur, handed, log>>

\* pool.join() returns once the workers have exited, and the driver returns.
ParJoin ==
    /\ mode = "par"
    /\ pc = "join"
    /\ running = {}
    /\ dispatched = NumChunks
    /\ pool' = "joined"
    /\ pc' = "done"
    /\ UNCHANGED <<args, err, tasks, task_num, pos, prog_bar, results, dispatched,
                   running, finished, taken, cur, handed, log>>

Next ==
    \/ Normalize
    \/ SeqConstruct \/ SeqCall \/ SeqUpdate \/ SeqFinish
    \/ LazyConstruct \/ LazyAdvance \/ LazyResume
    \/ BarConstruct \/ BarStart \/ BarUpdate
    \/ ParConstruct \/ WorkerTake \/ WorkerFinish
    \/ ParNext \/ ParNewline \/ ParClose \/ ParJoin

Spec == Init /\ [][Next]_vars

\* The driving thread of track_parallel_progress.
ParDriver == Normalize \/ ParConstruct \/ ParNext \/ ParNewline \/ ParClose \/ ParJoin

\* The same steps, with the scheduling the claims of termination assume: the
\* driving thread runs on while it can, an idle worker takes a waiting chunk
\* and a worker at work on a chunk finishes it.
FairSpec ==
    Init /\ [][Next]_vars
    /\ WF_vars(ParDriver) /\ WF_vars(WorkerTake) /\ WF_vars(WorkerFinish)

\* ------------------------------------------------------------- properties
Last(s) == s[Len(s)]
Mapped == [i \in 1..Len(tasks.items) |-> func(tasks.items[i])]
Count(s, v) == Cardinality({i \in DOMAIN s : s[i] = v})
Updates == {i \in DOMAIN log : log[i].op = "update"}
IsUpdate(e) == e.op = "update"
IsYield(e) == e.op = "yield"
OkUpdateArg(e) == IF e.op = "update" /\ e.ok THEN e.n ELSE 0

RECURSIVE SumOkUpdates(_)
SumOkUpdates(l) == IF l = <<>> THEN 0 ELSE OkUpdateArg(Head(l)) + SumOkUpdates(Tail(l))

\* C1: whenever func raises inside a worker, the pool is closed and joined
\* before the error reaches the caller of track_parallel_progress.
PoolReleasedOnWorkerFailure ==
    (mode = "par" /\ pc = "raised" /\ err = "FuncError") => pool = "joined"

\* C2: with keep_order the results are in task order whatever the order in
\* which the workers finish: result i is func(task i), and a run that
\* returns has one result per task.
KeepOrderResults ==
    (mode = "par" /\ keep_order) =>
        /\ \A i \in DOMAIN results : i <= Len(tasks.items) /\ results[i] = func(tasks.items[i])
        /\ (pc = "done" => results = Mapped)

KeepOrderWitness ==
    /\ mode = "par" /\ keep_order /\ pc = "done"
    /\ Len(results) >= 2
    /\ \E i, j \in DOMAIN finished : i < j /\ finished[i] > finished[j]

\* C3: without keep_order the results a run returns are a permutation of
\* the keep_order results: each task's result once, none lost, none twice.
UnorderedResultsPermutation ==
    (mode = "par" /\ ~keep_order /\ pc = "done") =>
        /\ Len(results) = Len(Mapped)
        /\ \A v \in Range(results) \cup Range(Mapped) : Count(results, v) = Count(Mapped, v)

UnorderedWitness ==
    /\ mode = "par" /\ ~keep_order /\ pc = "done"
    /\ Len(results) >= 2
    /\ results # Mapped

\* C4: in a skip_first run start() is called when the warm-up batch is
\* complete, so that every update of the run is preceded by a start().
SkipFirstStartsBeforeUpdate ==
    (mode = "par" /\ skip_first) =>
        \A i \in Updates : prog_bar.timer /\ \E j \in 1..(i - 1) : log[j].op = "start"

\* C5 as stated: with skip_first, while fewer than nproc*chunksize results
\* have been received, start() has not run, completed is 0 and nothing has
\* been written to the file.
WarmUpWritesNothing ==
    (mode = "par" /\ skip_first /\ Len(results) < nproc * chunksize) =>
        /\ ~prog_bar.timer
        /\ prog_bar.completed = 0
        /\ prog_bar.file = <<>>

\* C5 amended: with skip_first, while fewer than nproc*chunksize results
\* have been received, start() has not run, completed is 0 and the
\* ProgressBar has written nothing; the file holds nothing but the trailing
\* newline the driver writes once genpool is exhausted.
WarmUpSilentButNewline ==
    (mode = "par" /\ skip_first /\ Len(results) < nproc * chunksize) =>
        /\ ~prog_bar.timer
        /\ prog_bar.completed = 0
        /\ Updates = {}
        /\ IF pc \in {"close", "join", "done"} THEN prog_bar.file = <<"nl">>
           ELSE prog_bar.file = <<>>

WarmUpWitness ==
    /\ mode = "par" /\ skip_first /\ pc = "loop"
    /\ Len(results) >= 1
    /\ Len(results) < nproc * chunksize

\* C6: as long as every update(n), n >= 1, ran on a started ProgressBar
\* (and so succeeded), completed is the sum of the n passed so far: 0 at
\* first, and changed by nothing but update.
CompletedIsSumOfUpdates ==
    (\A i \in Updates : log[i].n >= 1 => log[i].ok) =>
        prog_bar.completed = SumOkUpdates(log)

CompletedSumWitness ==
    /\ mode = "bar"
    /\ \A i \in Updates : log[i].n >= 1 => log[i].ok
    /\ \E i, j \in Updates : i < j /\ log[i].ok /\ log[j].ok /\ log[i].n # log[j].n
    /\ prog_bar.completed >= 3

\* C7: update(n) with n <= 0 fails with the assertion error in any state,
\* and leaves the ProgressBar (completed and file) as it was.
NonPositiveUpdateFails ==
    [][(Len(log') = Len(log) + 1 /\ IsUpdate(Last(log')) /\ Last(log').n <= 0) =>
          /\ err' \in InvalidArgument
          /\ ~Last(log').ok
          /\ prog_bar' = prog_bar]_vars

NonPositiveUpdateWitness ==
    /\ mode = "bar"
    /\ log # <<>> /\ IsUpdate(Last(log)) /\ Last(log).n <= 0
    /\ err = "AssertionError"
    /\ prog_bar.timer /\ prog_bar.completed > 0

\* C8: what the head of every driver makes of `tasks`: a list gives itself
\* and its length; a pair (iterable, int L) gives the iterable and L; a
\* non-iterable, a tuple of another length than 2, and a pair whose first
\* element is not iterable or whose second is not an int fail with an
\* invalid-argument error.
IsGoodPair(t) ==
    /\ t.tag = "tuple" /\ Len(t.elems) = 2
    /\ t.elems[1].tag \in {"list", "gen", "tuple"}
    /\ t.elems[2].tag = "int"

NormalizationFailed == pc = "raised" /\ err \in InvalidArgument /\ tasks = PyNone

NormalizationContract ==
    (mode \in {"seq", "par", "lazy"} /\ pc # "init") =>
        /\ tasksArg.tag = "list" =>
              /\ tasks = tasksArg
              /\ pc = "norm" => task_num = Len(tasksArg.items)
        /\ IsGoodPair(tasksArg) =>
              /\ tasks = tasksArg.elems[1]
              /\ pc = "norm" => task_num = tasksArg.elems[2].val
        /\ tasksArg.tag = "int" => NormalizationFailed
        /\ (tasksArg.tag = "tuple" /\ Len(tasksArg.elems) # 2) => NormalizationFailed
        /\ (tasksArg.tag = "tuple" /\ Len(tasksArg.elems) = 2 /\ ~IsGoodPair(tasksArg))
              => NormalizationFailed

NormalizationWitness ==
    /\ pc = "norm"
    /\ IsGoodPair(tasksArg)
    /\ tasksArg.elems[1].tag = "gen"
    /\ task_num # Len(tasks.items)
    /\ Len(tasks.items) >= 2

\* C9: track_progress returns func(task i) for every task i, in order, and
\* calls update(1) once per task, after func(task i) returned and before
\* func(task i+1) is called.
SeqExpectedLog(n) ==
    [k \in 1..(2 * n + 1) |->
        IF k = 1 THEN Ev("start", 0, TRUE)
        ELSE IF k % 2 = 0 THEN Ev("func", tasks.items[k \div 2], TRUE)
        ELSE Ev("update", 1, TRUE)]

SequentialContract ==
    (mode = "seq" /\ pc \in {"loop", "update", "done"}) =>
        /\ log = SubSeq(SeqExpectedLog(Len(tasks.items)), 1, Len(log))
        /\ results = SubSeq(Mapped, 1, Len(results))
        /\ pc = "done" =>
              /\ results = Mapped
              /\ log = SeqExpectedLog(Len(tasks.items))
              /\ Cardinality(Updates) = Len(tasks.items)
              /\ prog_bar.completed = Len(tasks.items)

SequentialWitness ==
    /\ mode = "seq" /\ pc = "done"
    /\ Len(results) >= 3

\* C10: track_iter_progress yields the tasks unchanged and in order; when
\* the k-th task is handed to the caller k-1 updates have occurred, and
\* after full consumption there have been as many updates as tasks.
YieldedSoFar == [i \in 1..Len(SelectSeq(log, IsYield)) |-> SelectSeq(log, IsYield)[i].n]

LazyContract ==
    (mode = "lazy" /\ pc \in {"loop", "yielded", "done"}) =>
        /\ YieldedSoFar = SubSeq(tasks.items, 1, pos)
        /\ pc = "yielded" =>
              /\ handed = tasks.items[pos]
              /\ Cardinality(Updates) = pos - 1
              /\ prog_bar.completed = pos - 1
        /\ pc = "done" =>
              /\ YieldedSoFar = tasks.items
              /\ Cardinality(Updates) = Len(tasks.items)
              /\ prog_bar.completed = Len(tasks.items)

LazyWitness ==
    /\ mode = "lazy" /\ pc = "yielded"
    /\ pos >= 2

\* C11: a driver that completes writes one trailing newline, after its last
\* update; track_parallel_progress writes it before pool.close() and
\* pool.join(), and track_iter_progress not while the caller holds a task.
NewlineCount == Count(prog_bar.file, "nl")

TrailingNewline ==
    (mode \in {"seq", "par", "lazy"}) =>
        /\ pc = "done" => (NewlineCount = 1 /\ Last(prog_bar.file) = "nl")
        /\ pc \in {"loop", "update", "yielded"} => NewlineCount = 0
        /\ pc = "close" => (NewlineCount = 1 /\ pool = "open")
        /\ pool \in {"closed", "joined"} => (NewlineCount = 1 /\ Last(prog_bar.file) = "nl")

TrailingNewlineWitness ==
    /\ mode = "par" /\ pc = "join" /\ pool = "closed"
    /\ prog_bar.completed >= 2
    /\ Last(prog_bar.file) = "nl"

\* C12: when the declared length is the number of tasks the source yields,
\* completed never exceeds a task_num that is positive, in any driver.
WellFormedSource ==
    \/ tasksArg.tag = "list"
    \/ /\ IsGoodPair(tasksArg)
       /\ tasksArg.elems[2].val = Len(tasksArg.elems[1].items)

CompletedWithinTotal ==
    (mode \in {"seq", "par", "lazy"} /\ WellFormedSource /\ prog_bar.task_num > 0) =>
        prog_bar.completed <= prog_bar.task_num

CompletedWithinTotalWitness ==
    /\ mode = "par" /\ ~skip_first /\ WellFormedSource /\ pc = "done"
    /\ prog_bar.task_num >= 2
    /\ prog_bar.completed = prog_bar.task_num

\* C13: the task_num of the ProgressBar a driver builds is never negative,
\* whatever the number of tasks, nproc, chunksize and skip_first.
TotalNonNegative ==
    (mode \in {"seq", "par", "lazy"} /\ WellFormedSource
     /\ pc \notin {"init", "norm", "raised"}) =>
        prog_bar.task_num >= 0

\* C14: when func raises on task k, track_progress ends with that error: k-1
\* results and k-1 updates so far, func called on no later task, no newline
\* written, and nothing more happens.
FuncCalls == {i \in DOMAIN log : log[i].op = "func"}

SequentialFailure ==
    (mode = "seq" /\ pc = "raised" /\ err = "FuncError") =>
        /\ tasks.items[pos] \in raisesOn
        /\ \A i \in 1..(pos - 1) : tasks.items[i] \notin raisesOn
        /\ Cardinality(FuncCalls) = pos
        /\ Len(results) = pos - 1
        /\ Cardinality(Updates) = pos - 1
        /\ prog_bar.completed = pos - 1
        /\ NewlineCount = 0
        /\ Len(prog_bar.file) = pos
        /\ ~ENABLED Next

SequentialFailureWitness ==
    /\ mode = "seq" /\ pc = "raised" /\ err = "FuncError"
    /\ pos >= 2
    /\ pos < Len(tasks.items)

\* C15: without skip_first, with a func that never raises and fair
\* scheduling, track_parallel_progress returns: all results received,
\* completed equal to their number, the pool closed and joined.
ParallelRunReturns ==
    (/\ mode = "par" /\ pc = "init" /\ ~skip_first /\ raisesOn = {}
     /\ initargs = "ok" /\ normalize_tasks(tasksArg).err = "none")
    ~> (/\ pc = "done"
        /\ Len(results) = Len(tasks.items)
        /\ prog_bar.completed = Len(tasks.items)
        /\ pool = "joined")

ParallelRunReturnsWitness ==
    /\ mode = "par" /\ ~skip_first /\ raisesOn = {} /\ pc = "done"
    /\ pool = "joined"
    /\ Len(results) = MaxTasks
    /\ prog_bar.completed = MaxTasks

\* C17: in track_progress and in track_parallel_progress without skip_first,
\* after every turn of the loop completed is the number of results collected.
CompletedIsResultCount ==
    (/\ mode = "seq" \/ (mode = "par" /\ ~skip_first)
     /\ pc \in {"loop", "close", "join", "done"}) =>
        prog_bar.completed = Len(results)

CompletedIsResultCountWitness ==
    /\ mode = "par" /\ ~skip_first /\ pc = "loop"
    /\ Len(results) >= 2
    /\ Len(results) < Len(tasks.items)

\* C19: for a pair (iterable, L), L is only the task_num shown: track_progress
\* and track_iter_progress go through the M items the iterable yields, with M
\* updates (and M results), and the difference between L and M raises nothing.
DeclaredLengthOnlyDisplayed ==
    (mode \in {"seq", "lazy"} /\ IsGoodPair(tasksArg) /\ pc \notin {"init", "norm"}) =>
        /\ prog_bar.task_num = tasksArg.elems[2].val
        /\ pc = "raised" => err = "FuncError"
        /\ pc = "done" =>
              /\ prog_bar.completed = Len(tasksArg.elems[1].items)
              /\ Cardinality(Updates) = Len(tasksArg.elems[1].items)
              /\ mode = "seq" => results = [i \in 1..Len(tasksArg.elems[1].items) |->
                                                func(tasksArg.elems[1].items[i])]
              /\ mode = "lazy" => YieldedSoFar = tasksArg.elems[1].items

DeclaredLengthWitness ==
    /\ mode = "seq" /\ IsGoodPair(tasksArg) /\ pc = "done"
    /\ Len(results) >= 2
    /\ prog_bar.task_num < Len(results)
    /\ prog_bar.task_num > 0

\* ------------------------------------------------------ the rendered line
\* Python's float is the IEEE 754 double: 53 significant bits, every
\* operation rounded to the nearest double, ties to even.  A positive value
\* is kept here as top.l1 l2 l3 l4 * 2^e, with four 13-bit limbs after the
\* point; a double has top = 1.
LimbBase == 2^13

Max(a, b) == IF a > b THEN a ELSE b
Front(q) == SubSeq(q, 1, Len(q) - 1)

RECURSIVE BitLen(_)
BitLen(n) == IF n = 0 THEN 0 ELSE 1 + BitLen(n \div 2)

\* a/b scaled by powers of two into [1, 2)
RECURSIVE fnorm(_, _, _)
fnorm(a, b, e) ==
    IF a < b THEN fnorm(2 * a, b, e - 1)
    ELSE IF a >= 2 * b THEN fnorm(a, 2 * b, e + 1)
    ELSE [a |-> a, b |-> b, e |-> e]

\* k limbs of r/b, r < b, and what is left
RECURSIVE div_limbs(_, _, _)
div_limbs(r, b, k) ==
    IF k = 0 THEN [limbs |-> <<>>, rem |-> r]
    ELSE LET rest == div_limbs((r * LimbBase) % b, b, k - 1)
         IN [limbs |-> <<(r * LimbBase) \div b>> \o rest.limbs, rem |-> rest.rem]

\* limbs + n, n added to the last limb
RECURSIVE add_limbs(_, _)
add_limbs(limbs, n) ==
    IF limbs = <<>> THEN [limbs |-> <<>>, carry |-> n]
    ELSE LET v == Last(limbs) + n
             rest == add_limbs(Front(limbs), v \div LimbBase)
         IN [limbs |-> Append(rest.limbs, v % LimbBase), carry |-> rest.carry]

\* limbs * k + carry
RECURSIVE mul_limbs(_, _, _)
mul_limbs(limbs, k, carry) ==
    IF limbs = <<>> THEN [limbs |-> <<>>, carry |-> carry]
    ELSE LET v == Last(limbs) * k + carry
             rest == mul_limbs(Front(limbs), k, v \div LimbBase)
         IN [limbs |-> Append(rest.limbs, v % LimbBase), carry |-> rest.carry]

\* c / float(t) for integers c, t >= 1: the quotient rounded to 53 bits.
fdiv(c, t) ==
    LET n == fnorm(c, t, 0)
        d == div_limbs(n.a - n.b, n.b, 4)
        up == 2 * d.rem > n.b \/ (2 * d.rem = n.b /\ d.limbs[4] % 2 = 1)
        r == add_limbs(d.limbs, IF up THEN 1 ELSE 0)
    IN [top |-> 1 + r.carry, limbs |-> r.limbs, e |-> n.e]

\* k * x for an integer k >= 1 and a double x: the product rounded to 53 bits.
fmul_int(k, x) ==
    LET m == mul_limbs(x.limbs, k, 0)
        top == x.top * k + m.carry
        d == BitLen(top) - 1
        low == m.limbs[4] % (2^d)
        up == d > 0 /\ (2 * low > 2^d \/ (2 * low = 2^d /\ (m.limbs[4] \div (2^d)) % 2 = 1))
        r == add_limbs([m.limbs EXCEPT ![4] = @ - low], IF up THEN 2^d ELSE 0)
    IN [top |-> top + r.carry, limbs |-> r.limbs, e |-> x.e]

\* int(x) for a value x >= 0 below 2^13
ftrunc(x) ==
    IF x.e >= 0 THEN x.top * (2^x.e) + (x.limbs[1] * (2^x.e)) \div LimbBase
    ELSE x.top \div (2^(-x.e))

\* int(k * x), k >= 0
int_times(k, x) == IF k = 0 THEN 0 ELSE ftrunc(fmul_int(k, x))

\* int(q) of the exact quotient num/den, den > 0: towards zero.
int_quot(num, den) == IF num >= 0 THEN num \div den ELSE -((-num) \div den)

RECURSIVE Digits(_)
Digits(n) == IF n < 10 THEN 1 ELSE 1 + Digits(n \div 10)
str_len(n) == IF n < 0 THEN 1 + Digits(-n) ELSE Digits(n)
Rep(ch, n) == [i \in 1..n |-> ch]

\* len(f'{fps:.1f}'): "inf" when elapsed is 0, else completed/elapsed to one
\* decimal; el is the elapsed time in half seconds.
fps_len(c, el) ==
    IF el = 0 THEN 3
    ELSE LET q == (20 * c) \div el
             r == (20 * c) % el
             tenths == IF 2 * r > el \/ (2 * r = el /\ q % 2 = 1) THEN q + 1 ELSE q
         IN Digits(tenths \div 10) + 2

eta_values_without_remaining(c, t, el) == {int_quot(el * t + c, 2 * c)}

\* eta = int(elapsed * (1 - percentage) / percentage + 0.5).  In exact
\* arithmetic the sum is (el*(t-c) + c) / (2*c).  The three double
\* operations are each rounded, which moves the sum by less than any
\* distance between two such quotients but can leave it just short of an
\* integer it would reach exactly: int() then gives the integer next to it
\* towards zero.  At completed = task_num percentage is 1.0 and the sum 0.5,
\* exactly.
eta_values(c, t, el) ==
    LET num == el * (t - c) + c
        x == int_quot(num, 2 * c)
    IN IF num % (2 * c) # 0 \/ x = 0 THEN {x}
       ELSE IF x > 0 THEN {x, x - 1} ELSE {x, x + 1}

\* len(msg), the line with {} in the place of the bar
msg_len(c, t, el, eta) ==
    6 + Digits(c) + 1 + Digits(t) + 2 + fps_len(c, el) + 18
      + Digits((el + 1) \div 2) + 8 + Max(5, str_len(eta)) + 1

\* Lines 51-64 of update: what is written for task_num > 0, for a
\* ProgressBar b whose timer reads b.since_start half seconds on a terminal
\* of b.terminal_width columns, eta being the value line 53 computes.
render_line(b, eta) ==
    LET c == b.completed
        t == b.task_num
        percentage == fdiv(c, t)
        len == msg_len(c, t, b.since_start, eta)
        bw == Max(2, Min(Min(b.bar_width, (b.terminal_width - len) + 2),
                         int_times(b.terminal_width, fdiv(3, 5))))
        mark_width == int_times(bw, percentage)
    IN [completed |-> c, eta |-> eta, msg_len |-> len, bar_width |-> bw,
        mark_width |-> mark_width,
        bar_chars |-> Rep(">", mark_width) \o Rep(" ", bw - mark_width)]

\* update(1) with the line it writes: the line starts with \r, so it takes
\* the place of the line before it on the terminal.
update_render(b, n, eta) ==
    LET r == update(b, n)
    IN IF r.err # "none" \/ b.task_num <= 0 THEN r
       ELSE [bar |-> [r.bar EXCEPT !.file = <<render_line(r.bar, eta)>>], err |-> "none"]

SinceStart == 0..MaxElapsed
TermWidths == 0..MaxTermWidth
BarWidths == {1, MaxBarWidth}

RenderInit ==
    /\ mode = "render"
    /\ tasksArg = PyNone
    /\ nproc = 1 /\ chunksize = 1 /\ skip_first = FALSE /\ keep_order = TRUE
    /\ initargs = "ok"
    /\ raisesOn = {}
    /\ pc = "init"
    /\ err = "none"
    /\ tasks = PyNone
    /\ task_num = 0
    /\ pos = 0
    /\ prog_bar = NoBar
    /\ results = <<>>
    /\ pool = "none"
    /\ dispatched = 0
    /\ running = {}
    /\ finished = <<>>
    /\ taken = 0
    /\ cur = <<>>
    /\ handed = 0
    /\ log = <<>>

\* ProgressBar(task_num, bar_width), started, on a terminal of some width;
\* since_start is the last reading of its timer, in half seconds.
RenderConstruct ==
    /\ mode = "render"
    /\ pc = "init"
    /\ \E n \in 1..MaxTotal, w \in BarWidths, tw \in TermWidths :
          prog_bar' = start([task_num |-> n, bar_width |-> w, completed |-> 0,
                             timer |-> FALSE, file |-> <<>>,
                             terminal_width |-> tw, since_start |-> 0])
    /\ pc' = "use"
    /\ UNCHANGED <<args, err, tasks, task_num, pos, results, poolvars, handed, log>>

\* update(): one more task completed, at a reading of the timer no earlier
\* than the one before, and its line.
RenderUpdate ==
    /\ mode = "render"
    /\ pc = "use"
    /\ prog_bar.completed <= prog_bar.task_num
    /\ \E el \in SinceStart :
          /\ el >= prog_bar.since_start
          /\ \E eta \in eta_values(prog_bar.completed + 1, prog_bar.task_num, el) :
                LET r == update_render([prog_bar EXCEPT !.since_start = el], 1, eta)
                IN /\ prog_bar' = r.bar
                   /\ err' = r.err
    /\ UNCHANGED <<args, pc, tasks, task_num, pos, results, poolvars, handed, log>>

RenderNext == RenderConstruct \/ RenderUpdate

RenderSpec == RenderInit /\ [][RenderNext]_vars

Rendered == mode = "render" /\ pc = "use" /\ prog_bar.completed >= 1
Line == prog_bar.file[1]

\* C16: the bar is max(2, min(bar_width, terminal width - len(msg) + 2,
\* floor(0.6 * terminal width))) wide, so between 2 and max(2, bar_width);
\* and while completed <= task_num it is floor(width * completed / task_num)
\* '>' followed by blanks up to the width.
BarWidthAndFill ==
    Rendered =>
        /\ Line.bar_width = Max(2, Min(Min(prog_bar.bar_width,
                                           prog_bar.terminal_width - Line.msg_len + 2),
                                       (6 * prog_bar.terminal_width) \div 10))
        /\ Line.bar_width >= 2
        /\ Line.bar_width <= Max(2, prog_bar.bar_width)
        /\ prog_bar.completed <= prog_bar.task_num =>
              /\ Len(Line.bar_chars) = Line.bar_width
              /\ Line.mark_width = (Line.bar_width * prog_bar.completed) \div prog_bar.task_num
              /\ Line.bar_chars = Rep(">", Line.mark_width)
                                    \o Rep(" ", Line.bar_width - Line.mark_width)

\* C18: the update that brings completed to task_num renders ETA 0 and a
\* full bar, and every update with 0 < completed <= task_num an ETA >= 0.
FinalLineFullAndEtaZero ==
    (Rendered /\ prog_bar.completed <= prog_bar.task_num) =>
        /\ Line.eta >= 0
        /\ prog_bar.completed = prog_bar.task_num =>
              /\ Line.eta = 0
              /\ Line.mark_width = Line.bar_width
              /\ Line.bar_chars = Rep(">", Line.bar_width)

FinalLineWitness ==
    /\ Rendered
    /\ prog_bar.completed = prog_bar.task_num
    /\ prog_bar.task_num >= 3
    /\ prog_bar.since_start > 0
    /\ Line.bar_width > 2
    /\ Line.eta = 0
====
